---- MODULE Spec2Model ----
(***************************************************************************)
(* Model of the referral network of src/src/ReferralNetwork.ts (the class  *)
(* ReferralNetwork, lines 272-564) and of src/src/entities/User.ts.        *)
(*                                                                         *)
(* The network is a JavaScript Map from id to User; a User holds its id,   *)
(* its referrerId (an id or null) and its referrals (a Set of ids).  A Map *)
(* and a Set iterate in insertion order, so both are sequences here.       *)
(* The code tests ids with JavaScript truthiness (`if (referrerId)`,       *)
(* `while (!!pointer)`), which the empty string fails, so the empty string *)
(* is one of the ids the callers pass.                                     *)
(***************************************************************************)
EXTENDS Integers, Sequences, FiniteSets, Bags, TLC

\* ------------------------------------------------------------------ values
\* JavaScript null and undefined; no id is equal to either.
Null == "<null>"
Undefined == "<undefined>"

\* Bounds of the model: the largest number of users the Map holds at once,
\* when every call is recorded (MaxUsers) and when only the calls that
\* returned are recorded (MaxAppliedUsers).
MaxUsers == 2
MaxAppliedUsers == 3

\* The ids callers pass explicitly (type ID = string, so "" is one of them).
CallerIds == {"", "a"}

\* The values crypto.randomUUID() can return in this model.  A caller that has
\* seen a generated id can pass it like any other id.
UuidPool == {"u1"}

Ids == CallerIds \cup UuidPool

\* JavaScript truthiness of a value of type ID | null | undefined.
Truthy(x) == x # Null /\ x # Undefined /\ x # ""

\* The outcomes of a call: "ok" or the error the call threw, named after the
\* message of the Error.
\*   "Referrer ${id} not found"                 UnknownReferrer
\*   "User ${id} not found"                     UnknownUser
\*   "User ${id} already exists"                DuplicateUser
\*   "User ${id} cannot be a referrer of itself" SelfReferral
\*   "User ${id} already has a referrer"        AlreadyReferred
\*   "Linking user ... would create a cycle"    CycleDetected
\*   a walk or recursion that never returns      Diverges
Errors == {"UnknownReferrer", "UnknownUser", "DuplicateUser", "SelfReferral",
           "AlreadyReferred", "CycleDetected", "Diverges"}

\* ------------------------------------------------------------------- state
VARIABLES
  users,   \* the Map _users: sequence of User records in insertion order
  last,    \* the last call: operation, arguments, outcome, created id
  pre,     \* the Map _users as it was when the last call started
  simulation,  \* the NetworkGrowthSimulation object: its two readonly fields
  simulated,   \* the last call of the simulation: arguments and outcome
  optimizer,   \* the ReferralBonusOptimizer object: its two readonly fields
  optimized,   \* the last call of the optimizer: arguments and outcome
  minHeap,     \* the array `heap` of a MinHeap object
  heaped       \* the last call of the MinHeap: outcome, array before the call

vars == <<users, last, pre, simulation, simulated, optimizer, optimized, minHeap, heaped>>

\* ----------------------------------------------------- sets in insertion order
Range(s) == {s[i] : i \in DOMAIN s}

\* Set.prototype.add: appends unless already a member.
SetAdd(s, x) == IF x \in Range(s) THEN s ELSE Append(s, x)

\* Set.prototype.delete: removes the member, keeps the order of the others.
SetDelete(s, x) == SelectSeq(s, LAMBDA y : y # x)

\* --------------------------------------------------------------- the Map
Keys(us) == {us[i].id : i \in DOMAIN us}

\* Map.prototype.has / non-null result of _getUser(id, {readSilently: true}).
Has(us, id) == id \in Keys(us)

IndexOf(us, id) == CHOOSE i \in DOMAIN us : us[i].id = id

\* _getUser(id) for a present id.
GetUser(us, id) == us[IndexOf(us, id)]

\* Map.prototype.set: replaces the value of a present key in place, appends a
\* new key.
MapSet(us, u) ==
  IF Has(us, u.id) THEN [us EXCEPT ![IndexOf(us, u.id)] = u] ELSE Append(us, u)

\* Map.prototype.delete.
MapDelete(us, id) == SelectSeq(us, LAMBDA u : u.id # id)

\* new User(id, referrerId): id ?? crypto.randomUUID(), referrerId ?? null.
NewUser(id, referrerId, uuid) ==
  [id |-> IF id = Undefined THEN uuid ELSE id,
   referrerId |-> IF referrerId = Undefined THEN Null ELSE referrerId,
   referrals |-> <<>>]

\* User.addReferral, User.removeReferral and the referrerId setter, applied to
\* the User object stored under id.
AddReferral(us, id, userId) ==
  [us EXCEPT ![IndexOf(us, id)].referrals = SetAdd(@, userId)]

RemoveReferral(us, id, userId) ==
  [us EXCEPT ![IndexOf(us, id)].referrals = SetDelete(@, userId)]

SetReferrerId(us, id, r) ==
  [us EXCEPT ![IndexOf(us, id)].referrerId = r]

Outcome(res, us, created) == [result |-> res, users |-> us, created |-> created]

\* ------------------------------------------------------------- _hasPath
\* _hasPath(from, to): walks the referrer chain from `to` while the pointer is
\* truthy.  A walk of more steps than there are users revisits a user, and
\* the loop never ends.
RECURSIVE HasPathWalk(_, _, _, _)
HasPathWalk(us, from, pointer, fuel) ==
  IF ~Truthy(pointer) THEN "false"
  ELSE IF pointer = from THEN "true"
  ELSE IF ~Has(us, pointer) THEN "UnknownUser"
  ELSE IF fuel = 0 THEN "Diverges"
  ELSE HasPathWalk(us, from, GetUser(us, pointer).referrerId, fuel - 1)

hasPath(us, from, to) == HasPathWalk(us, from, to, Len(us))

\* ---------------------------------------------------------- registerUser
\* registerUser(id?, referrerId?); uuid is what crypto.randomUUID() returns
\* when the User constructor calls it.
registerUserLink(us, user, referrerId) ==
  IF ~Truthy(referrerId) THEN Outcome("ok", us, user.id)
  ELSE IF ~Has(us, referrerId) THEN Outcome("UnknownUser", us, user.id)
  ELSE Outcome("ok",
               SetReferrerId(AddReferral(us, referrerId, user.id),
                             user.id, referrerId),
               user.id)

\* registerUser as it would be with the referrer looked up only after the new
\* user is stored: an unknown referrer then leaves the new user behind.
registerUserStoresFirst(us, id, referrerId, uuid) ==
  IF Truthy(id) /\ Has(us, id)
    THEN Outcome("DuplicateUser", us, Null)
  ELSE IF id = referrerId
    THEN Outcome("SelfReferral", us, Null)
  ELSE LET user == NewUser(id, referrerId, uuid)
           us1  == MapSet(us, user)
       IN  IF Truthy(referrerId) /\ ~Has(us, referrerId)
             THEN Outcome("UnknownReferrer", us1, Null)
             ELSE registerUserLink(us1, user, referrerId)

registerUserCall(us, id, referrerId, uuid) ==
  IF Truthy(referrerId) /\ ~Has(us, referrerId)
    THEN Outcome("UnknownReferrer", us, Null)
  ELSE IF Truthy(id) /\ Has(us, id)
    THEN Outcome("DuplicateUser", us, Null)
  ELSE IF id = referrerId
    THEN Outcome("SelfReferral", us, Null)
  ELSE LET user == NewUser(id, referrerId, uuid)
       IN  registerUserLink(MapSet(us, user), user, referrerId)

\* ---------------------------------------------------- linkUserToReferrer
linkUserToReferrerCall(us, referrerId, userId) ==
  IF ~Has(us, referrerId) THEN Outcome("UnknownReferrer", us, Null)
  ELSE IF ~Has(us, userId) THEN Outcome("UnknownUser", us, Null)
  ELSE IF Truthy(GetUser(us, userId).referrerId)
    THEN Outcome("AlreadyReferred", us, Null)
  ELSE LET path == hasPath(us, userId, referrerId)
       IN  IF path = "true" THEN Outcome("CycleDetected", us, Null)
           ELSE IF path # "false" THEN Outcome(path, us, Null)
           ELSE Outcome("ok",
                        SetReferrerId(AddReferral(us, referrerId, userId),
                                      userId, referrerId),
                        Null)

\* ------------------------------------------------------------ deleteUser
\* The forEach over user.referrals: every referral that is present gets
\* referrerId = null.
RECURSIVE deleteUserNullify(_, _)
deleteUserNullify(us, referrals) ==
  IF referrals = <<>> THEN us
  ELSE LET referralId == Head(referrals)
           us1 == IF Has(us, referralId)
                    THEN SetReferrerId(us, referralId, Null) ELSE us
       IN  deleteUserNullify(us1, Tail(referrals))

\* deleteUser as it would be without the forEach over the referrals: the
\* referrals of the deleted user keep their referrerId.
deleteUserKeepsReferrers(us, id) ==
  IF ~Has(us, id) THEN Outcome("UnknownUser", us, Null)
  ELSE LET r == GetUser(us, id).referrerId
       IN  IF ~Truthy(r) THEN Outcome("ok", MapDelete(us, id), Null)
           ELSE IF ~Has(us, r) THEN Outcome("UnknownUser", us, Null)
           ELSE Outcome("ok", MapDelete(RemoveReferral(us, r, id), id), Null)

\* deleteUser as it would be without `this._users.delete(id)`: the user is
\* detached from its referrals and its referrer, and stays in the Map.
deleteUserKeepsEntry(us, id) ==
  IF ~Has(us, id) THEN Outcome("UnknownUser", us, Null)
  ELSE LET us1 == deleteUserNullify(us, GetUser(us, id).referrals)
           r   == GetUser(us1, id).referrerId
       IN  IF ~Truthy(r) THEN Outcome("ok", us1, Null)
           ELSE IF ~Has(us1, r) THEN Outcome("UnknownUser", us1, Null)
           ELSE Outcome("ok", RemoveReferral(us1, r, id), Null)

deleteUserCall(us, id) ==
  IF ~Has(us, id) THEN Outcome("UnknownUser", us, Null)
  ELSE LET us1 == deleteUserNullify(us, GetUser(us, id).referrals)
           r   == GetUser(us1, id).referrerId
       IN  IF ~Truthy(r) THEN Outcome("ok", MapDelete(us1, id), Null)
           ELSE IF ~Has(us1, r) THEN Outcome("UnknownUser", us1, Null)
           ELSE Outcome("ok", MapDelete(RemoveReferral(us1, r, id), id), Null)

\* ----------------------------------------------------------------- queries
\* getUserDetails(id): the snapshot {id, referrerId}, or the error.
getUserDetails(us, id) ==
  IF ~Has(us, id) THEN [result |-> "UnknownUser"]
  ELSE [result |-> "ok", id |-> GetUser(us, id).id,
        referrerId |-> GetUser(us, id).referrerId]

\* getDirectReferrals(id): Array.from(user.referrals), or the error.
getDirectReferrals(us, id) ==
  IF ~Has(us, id) THEN [result |-> "UnknownUser"]
  ELSE [result |-> "ok", value |-> GetUser(us, id).referrals]

\* getTotalReferralCount(id): referrals.size plus the count of every referral,
\* recursively.  A recursion deeper than the number of users revisits a user
\* and never returns.
RECURSIVE TotalReferralCount(_, _, _)
RECURSIVE SumReferralCounts(_, _, _, _)
SumReferralCounts(us, referrals, acc, fuel) ==
  IF referrals = <<>> THEN [result |-> "ok", value |-> acc]
  ELSE LET c == TotalReferralCount(us, Head(referrals), fuel)
       IN  IF c.result # "ok" THEN c
           ELSE SumReferralCounts(us, Tail(referrals), acc + c.value, fuel)

TotalReferralCount(us, id, fuel) ==
  IF ~Has(us, id) THEN [result |-> "UnknownUser"]
  ELSE IF fuel = 0 THEN [result |-> "Diverges"]
  ELSE LET referrals == GetUser(us, id).referrals
       IN  SumReferralCounts(us, referrals, Len(referrals), fuel - 1)

getTotalReferralCount(us, id) == TotalReferralCount(us, id, Len(us) + 1)

\* ----------------------------------------------------------------- MinHeap
\* The heap array is 0-based in the code; heap[i] is h[i + 1] here.
\* The comparator of a max-heap.
compareDescending(a, b) == b.score - a.score

\* compare of getTopReferrersByReach: (a, b) => a.score - b.score.
compare(a, b) == a.score - b.score

getLeftChildIndex(index) == 2 * index + 1
getRightChildIndex(index) == 2 * index + 2
\* Math.floor((index - 1) / 2), which is -1 for index 0.
getParentIndex(index) == IF index = 0 THEN -1 ELSE (index - 1) \div 2
hasLeftChild(h, index) == getLeftChildIndex(index) < Len(h)
hasRightChild(h, index) == getRightChildIndex(index) < Len(h)
hasParent(index) == getParentIndex(index) >= 0

swap(h, index1, index2) ==
  [h EXCEPT ![index1 + 1] = h[index2 + 1], ![index2 + 1] = h[index1 + 1]]

RECURSIVE heapifyUp(_, _)
heapifyUp(h, currentIndex) ==
  LET parentIndex == getParentIndex(currentIndex)
  IN  IF hasParent(currentIndex)
           /\ compare(h[currentIndex + 1], h[parentIndex + 1]) < 0
        THEN heapifyUp(swap(h, currentIndex, parentIndex), parentIndex)
        ELSE h

\* _heapifyDown without the comparison of the two children: every swap goes
\* to the left child.
RECURSIVE heapifyDownLeftOnly(_, _)
heapifyDownLeftOnly(h, currentIndex) ==
  IF ~hasLeftChild(h, currentIndex) THEN h
  ELSE LET smallerChildIndex == getLeftChildIndex(currentIndex)
       IN  IF compare(h[currentIndex + 1], h[smallerChildIndex + 1]) < 0
             THEN h
             ELSE heapifyDownLeftOnly(swap(h, currentIndex, smallerChildIndex),
                                      smallerChildIndex)

RECURSIVE heapifyDown(_, _)
heapifyDown(h, currentIndex) ==
  IF ~hasLeftChild(h, currentIndex) THEN h
  ELSE LET left  == getLeftChildIndex(currentIndex)
           right == getRightChildIndex(currentIndex)
           smallerChildIndex ==
             IF hasRightChild(h, currentIndex)
                  /\ compare(h[right + 1], h[left + 1]) < 0
               THEN right ELSE left
       IN  IF compare(h[currentIndex + 1], h[smallerChildIndex + 1]) < 0
             THEN h
             ELSE heapifyDown(swap(h, currentIndex, smallerChildIndex),
                              smallerChildIndex)

\* MinHeap.add, MinHeap.peek and MinHeap.remove (on a heap that is not empty).
heapAdd(h, element) == heapifyUp(Append(h, element), Len(h))
heapPeek(h) == h[1]
heapRemove(h) ==
  heapifyDown(SubSeq([h EXCEPT ![1] = h[Len(h)]], 1, Len(h) - 1), 0)

\* The elements the model adds to a MinHeap: objects { id, score } compared by
\* score as in getTopReferrersByReach; the id tells apart two objects of the
\* same score.  NoElement stands for "nothing returned".
MaxHeapAdds == 4
MaxScore == 2
NoElement == [id |-> 0, score |-> 0]

\* peek() and remove() as calls: both throw 'Heap is empty' on an empty heap.
heapPeekCall(h) ==
  IF Len(h) = 0 THEN [result |-> "HeapEmpty", element |-> NoElement]
  ELSE [result |-> "ok", element |-> heapPeek(h)]
heapRemoveCall(h) ==
  IF Len(h) = 0 THEN [result |-> "HeapEmpty", heap |-> h]
  ELSE [result |-> "ok", heap |-> heapRemove(h)]

\* toArray() without the restore: peek and remove until the heap is empty.
RECURSIVE heapDrain(_)
heapDrain(h) ==
  IF Len(h) = 0 THEN <<>> ELSE <<heapPeek(h)>> \o heapDrain(heapRemove(h))

NoHeapCall == [op |-> "none", result |-> "ok", element |-> NoElement,
               before |-> <<>>, adds |-> 0, removes |-> 0]

\* ------------------------------------------------- getTopReferrersByReach
\* computeReach(id) with its two captured variables, the cache
\* reachCountCache and the heap topReferrers.  A recursion deeper than the
\* number of users revisits a user whose reach is not cached yet, and never
\* returns.  log records the executions of lines 401-415 in order: the id
\* whose reach was computed and pushed, and the size of the heap after the
\* push and the eviction.
RECURSIVE computeReach(_, _, _, _, _, _, _)
RECURSIVE computeReachSum(_, _, _, _, _, _, _, _)
computeReachSum(us, k, referrals, reach, cache, heap, log, fuel) ==
  IF referrals = <<>>
    THEN [result |-> "ok", value |-> reach, cache |-> cache, heap |-> heap,
          log |-> log]
  ELSE LET c == computeReach(us, k, Head(referrals), cache, heap, log, fuel)
       IN  IF c.result # "ok" THEN c
           ELSE computeReachSum(us, k, Tail(referrals), reach + c.value,
                                c.cache, c.heap, c.log, fuel)

\* computeReach without the look-up in reachCountCache.
computeReachUncached(us, k, id, cache, heap, log, fuel) ==
  IF ~Has(us, id)
    THEN [result |-> "UnknownUser", cache |-> cache, heap |-> heap,
          log |-> log]
  ELSE IF fuel = 0
    THEN [result |-> "Diverges", cache |-> cache, heap |-> heap, log |-> log]
  ELSE LET referrals == GetUser(us, id).referrals
           c == computeReachSum(us, k, referrals, Len(referrals), cache, heap,
                                log, fuel - 1)
       IN  IF c.result # "ok" THEN c
           ELSE LET added == heapAdd(c.heap, [id |-> id, score |-> c.value])
                    kept == IF Len(added) > k THEN heapRemove(added)
                                              ELSE added
                IN  [result |-> "ok", value |-> c.value,
                     cache |-> (id :> c.value) @@ c.cache,
                     heap |-> kept,
                     log |-> Append(c.log, [id |-> id, size |-> Len(kept)])]

computeReach(us, k, id, cache, heap, log, fuel) ==
  IF id \in DOMAIN cache
    THEN [result |-> "ok", value |-> cache[id], cache |-> cache, heap |-> heap,
          log |-> log]
  ELSE IF ~Has(us, id)
    THEN [result |-> "UnknownUser", cache |-> cache, heap |-> heap,
          log |-> log]
  ELSE IF fuel = 0
    THEN [result |-> "Diverges", cache |-> cache, heap |-> heap, log |-> log]
  ELSE LET referrals == GetUser(us, id).referrals
           c == computeReachSum(us, k, referrals, Len(referrals), cache, heap,
                                log, fuel - 1)
       IN  IF c.result # "ok" THEN c
           ELSE LET added == heapAdd(c.heap, [id |-> id, score |-> c.value])
                    kept == IF Len(added) > k THEN heapRemove(added)
                                              ELSE added
                IN  [result |-> "ok", value |-> c.value,
                     cache |-> (id :> c.value) @@ c.cache,
                     heap |-> kept,
                     log |-> Append(c.log, [id |-> id, size |-> Len(kept)])]

\* The loop `for (const user of this._users.values()) computeReach(user.id)`.
RECURSIVE computeReachAll(_, _, _, _, _, _)
computeReachAll(us, k, i, cache, heap, log) ==
  IF i > Len(us)
    THEN [result |-> "ok", cache |-> cache, heap |-> heap, log |-> log]
  ELSE LET c == computeReach(us, k, us[i].id, cache, heap, log, Len(us))
       IN  IF c.result # "ok" THEN c
           ELSE computeReachAll(us, k, i + 1, c.cache, c.heap, c.log)

\* The final loop: the heap is emptied from its minimum up, and the array is
\* filled from its last index down.
RECURSIVE drainDescending(_)
drainDescending(h) ==
  IF h = <<>> THEN <<>>
  ELSE Append(drainDescending(heapRemove(h)), heapPeek(h))

getTopReferrersByReach(us, k) ==
  LET c == computeReachAll(us, k, 1, <<>>, <<>>, <<>>)
  IN  IF c.result # "ok" THEN [result |-> c.result]
      ELSE [result |-> "ok", value |-> drainDescending(c.heap)]

\* ------------------------------------------------------- sorting by score
\* Array.prototype.sort((a, b) => b.score - a.score): descending by score,
\* stable, so entries of equal score keep their order.
RECURSIVE insertByScore(_, _)
insertByScore(sorted, x) ==
  IF sorted = <<>> THEN <<x>>
  ELSE IF Head(sorted).score >= x.score
    THEN <<Head(sorted)>> \o insertByScore(Tail(sorted), x)
    ELSE <<x>> \o sorted

RECURSIVE sortByScoreDesc(_)
sortByScoreDesc(seq) ==
  IF seq = <<>> THEN <<>>
  ELSE insertByScore(sortByScoreDesc(SubSeq(seq, 1, Len(seq) - 1)),
                     seq[Len(seq)])

\* ------------------------------------------------ getUniqueReachExpansion
\* The loop over this._users.values(): a user whose referrerId is falsy is
\* pushed with its getTotalReferralCount when that is positive.
RECURSIVE uniqueReachLoop(_, _, _)
uniqueReachLoop(us, i, uniqueReach) ==
  IF i > Len(us) THEN [result |-> "ok", value |-> uniqueReach]
  ELSE IF Truthy(us[i].referrerId) THEN uniqueReachLoop(us, i + 1, uniqueReach)
  ELSE LET reach == getTotalReferralCount(us, us[i].id)
       IN  IF reach.result # "ok" THEN [result |-> reach.result]
           ELSE uniqueReachLoop(us, i + 1,
                  IF reach.value > 0
                    THEN Append(uniqueReach,
                                [id |-> us[i].id, score |-> reach.value])
                    ELSE uniqueReach)

getUniqueReachExpansion(us) ==
  LET r == uniqueReachLoop(us, 1, <<>>)
  IN  IF r.result # "ok" THEN r
      ELSE [result |-> "ok", value |-> sortByScoreDesc(r.value)]

\* ------------------------------------------------------ getFlowCentrality
\* The two Maps userDepthFromRoot and userDescendantsCount are sequences of
\* [id, value] records in insertion order (MapSet).  A recursion deeper than
\* the number of users revisits a user and never returns.
RECURSIVE computeDepthAndDescendantsCount(_, _, _, _, _)
RECURSIVE computeDepthOfChildren(_, _, _, _, _, _)
computeDepthOfChildren(us, referrals, depth, total, depths, counts) ==
  IF referrals = <<>>
    THEN [result |-> "ok", value |-> total, depths |-> depths,
          counts |-> counts]
  ELSE LET c == computeDepthAndDescendantsCount(us, Head(referrals),
                                                depth + 1, depths, counts)
       IN  IF c.result # "ok" THEN c
           ELSE computeDepthOfChildren(us, Tail(referrals), depth,
                                       total + 1 + c.value, c.depths, c.counts)

computeDepthAndDescendantsCount(us, id, depth, depths, counts) ==
  IF ~Has(us, id) THEN [result |-> "UnknownUser"]
  ELSE IF depth >= Len(us) THEN [result |-> "Diverges"]
  ELSE LET c == computeDepthOfChildren(us, GetUser(us, id).referrals, depth,
                  0, MapSet(depths, [id |-> id, value |-> depth]), counts)
       IN  IF c.result # "ok" THEN c
           ELSE [result |-> "ok", value |-> c.value, depths |-> c.depths,
                 counts |-> MapSet(c.counts, [id |-> id, value |-> c.value])]

\* The loop over this._users.values() that starts one pass at every user whose
\* referrerId is falsy.
RECURSIVE flowCentralityLoop(_, _, _, _)
flowCentralityLoop(us, i, depths, counts) ==
  IF i > Len(us) THEN [result |-> "ok", depths |-> depths, counts |-> counts]
  ELSE IF Truthy(us[i].referrerId)
    THEN flowCentralityLoop(us, i + 1, depths, counts)
  ELSE LET c == computeDepthAndDescendantsCount(us, us[i].id, 0, depths,
                                                counts)
       IN  IF c.result # "ok" THEN c
           ELSE flowCentralityLoop(us, i + 1, c.depths, c.counts)

\* score = depth * (userDescendantsCount.get(id) ?? 0), in the order of
\* userDepthFromRoot.entries().
flowScores(depths, counts) ==
  [i \in DOMAIN depths |->
     [id |-> depths[i].id,
      score |-> depths[i].value *
                (IF Has(counts, depths[i].id)
                   THEN GetUser(counts, depths[i].id).value ELSE 0)]]

getFlowCentrality(us) ==
  IF Len(us) = 0 THEN [result |-> "ok", value |-> <<>>]
  ELSE LET c == flowCentralityLoop(us, 1, <<>>, <<>>)
       IN  IF c.result # "ok" THEN [result |-> c.result]
           ELSE [result |-> "ok",
                 value |-> sortByScoreDesc(flowScores(c.depths, c.counts))]

\* --------------------------------------------------- NetworkGrowthSimulation
\* Model of src/src/NetworkGrowthSimulation.ts.  A probability is a multiple
\* of 1 / PDen and is written as its numerator: p stands for p / PDen, so
\* 0 is the probability 0 and PDen the probability 1.  An expected number of
\* referrers or referrals x is written as the integer x * Scale; with
\* Scale = PDen ^ MaxDays the products of MaxDays days are exact.
MaxDays == 3
MaxTarget == 3
PDen == 2
MaxInitialReferrers == 2
MaxCapacity == 2

\* The defaults of the constructor.
DefaultInitialReferrers == 100
DefaultCapacity == 10

RECURSIVE Pow(_, _)
Pow(b, e) == IF e = 0 THEN 1 ELSE b * Pow(b, e - 1)

\* The largest number of days a call of the model simulates: MaxDays in
\* simulate; in daysToTarget at most PDen * MaxTarget, because a network with
\* a referrer that can refer gains at least 1 / PDen referrals a day.
MaxSteps == IF MaxDays >= PDen * MaxTarget THEN MaxDays ELSE PDen * MaxTarget

Scale == Pow(PDen, MaxSteps)

\* The probabilities and day counts callers pass: one below and one above
\* the valid range on each side.
Probabilities == (0 - 1)..(PDen + 1)
DayCounts == (0 - 1)..MaxDays
Targets == (0 - 1)..MaxTarget

\* new NetworkGrowthSimulation(...args): args holds the arguments passed, in
\* the order initialReferrerCount, referrerCapacityPerUser; an argument that
\* is left out is undefined and gets the default.
NewSimulation(args) ==
  [INITIAL_REFERRERS |->
     IF Len(args) >= 1 THEN args[1] ELSE DefaultInitialReferrers,
   REFERRAL_CAPACITY_PER_USER |->
     IF Len(args) >= 2 THEN args[2] ELSE DefaultCapacity]

\* The argument lists a simulation is constructed with.
SimulationArgs ==
  {<<>>} \cup {<<n>> : n \in 0..MaxInitialReferrers}
         \cup {<<n, c>> : n \in 0..MaxInitialReferrers, c \in 0..MaxCapacity}

\* new Array(REFERRAL_CAPACITY_PER_USER + 1).fill(0)
ZeroBuckets(sim) == [c \in 0..sim.REFERRAL_CAPACITY_PER_USER |-> 0]

\* The first day's buckets: every initial referrer has the full capacity.
InitialBuckets(sim) ==
  [ZeroBuckets(sim) EXCEPT ![sim.REFERRAL_CAPACITY_PER_USER] =
     sim.INITIAL_REFERRERS * Scale]

\* The inner loop of simulate with the product referrers * p left out: every
\* referrer refers every day.
RECURSIVE capacityLoopEveryoneRefers(_, _, _, _, _, _)
capacityLoopEveryoneRefers(sim, p, referrersByCapacity, userReferralCapacity, next, todaysNewReferrals) ==
  IF userReferralCapacity > sim.REFERRAL_CAPACITY_PER_USER
    THEN [next |-> next, todaysNewReferrals |-> todaysNewReferrals]
  ELSE LET referrersWithCurrCapacity ==
             referrersByCapacity[userReferralCapacity]
       IN  IF referrersWithCurrCapacity = 0
             THEN capacityLoopEveryoneRefers(sim, p, referrersByCapacity,
                    userReferralCapacity + 1, next, todaysNewReferrals)
           ELSE capacityLoopEveryoneRefers(sim, p, referrersByCapacity,
                  userReferralCapacity + 1,
                  [next EXCEPT ![userReferralCapacity - 1] =
                                 @ + referrersWithCurrCapacity],
                  todaysNewReferrals + referrersWithCurrCapacity)

\* The inner loop of simulate, over the capacity buckets 1..capacity.
RECURSIVE capacityLoop(_, _, _, _, _, _)
capacityLoop(sim, p, referrersByCapacity, userReferralCapacity, next, todaysNewReferrals) ==
  IF userReferralCapacity > sim.REFERRAL_CAPACITY_PER_USER
    THEN [next |-> next, todaysNewReferrals |-> todaysNewReferrals]
  ELSE LET referrersWithCurrCapacity ==
             referrersByCapacity[userReferralCapacity]
           successfulReferrals == (referrersWithCurrCapacity * p) \div PDen
           unsuccessfulReferrals ==
             (referrersWithCurrCapacity * (PDen - p)) \div PDen
       IN  IF referrersWithCurrCapacity = 0
             THEN capacityLoop(sim, p, referrersByCapacity,
                               userReferralCapacity + 1, next,
                               todaysNewReferrals)
           ELSE capacityLoop(sim, p, referrersByCapacity,
                  userReferralCapacity + 1,
                  [next EXCEPT
                     ![userReferralCapacity - 1] = @ + successfulReferrals,
                     ![userReferralCapacity] = @ + unsuccessfulReferrals],
                  todaysNewReferrals + successfulReferrals)

\* The outer loop of simulate with line 79 left out: the new referrals never
\* become referrers.
RECURSIVE dayLoopNoNewReferrers(_, _, _, _, _, _, _)
dayLoopNoNewReferrers(sim, p, days, currentDay, referrersByCapacity, cumulativeReferrals, dailyCumulativeReferrals) ==
  IF currentDay >= days
    THEN [referrersByCapacity |-> referrersByCapacity,
          dailyCumulativeReferrals |-> dailyCumulativeReferrals]
  ELSE LET today == capacityLoop(sim, p, referrersByCapacity, 1,
                                 ZeroBuckets(sim), 0)
           cumulative == cumulativeReferrals + today.todaysNewReferrals
       IN  dayLoopNoNewReferrers(sim, p, days, currentDay + 1, today.next,
             cumulative, Append(dailyCumulativeReferrals, cumulative))

\* The outer loop of simulate with `cumulativeReferrals += todaysNewReferrals`
\* replaced by an assignment: each entry is the total of its own day.
RECURSIVE dayLoopDailyTotals(_, _, _, _, _, _, _)
dayLoopDailyTotals(sim, p, days, currentDay, referrersByCapacity, cumulativeReferrals, dailyCumulativeReferrals) ==
  IF currentDay >= days
    THEN [referrersByCapacity |-> referrersByCapacity,
          dailyCumulativeReferrals |-> dailyCumulativeReferrals]
  ELSE LET today == capacityLoop(sim, p, referrersByCapacity, 1,
                                 ZeroBuckets(sim), 0)
           nextDayReferrersByCapacity ==
             [today.next EXCEPT ![sim.REFERRAL_CAPACITY_PER_USER] =
                                  @ + today.todaysNewReferrals]
           cumulative == today.todaysNewReferrals
       IN  dayLoopDailyTotals(sim, p, days, currentDay + 1,
             nextDayReferrersByCapacity, cumulative,
             Append(dailyCumulativeReferrals, cumulative))

\* The outer loop of simulate, over the days.
RECURSIVE dayLoop(_, _, _, _, _, _, _)
dayLoop(sim, p, days, currentDay, referrersByCapacity, cumulativeReferrals, dailyCumulativeReferrals) ==
  IF currentDay >= days
    THEN [referrersByCapacity |-> referrersByCapacity,
          dailyCumulativeReferrals |-> dailyCumulativeReferrals]
  ELSE LET today == capacityLoop(sim, p, referrersByCapacity, 1,
                                 ZeroBuckets(sim), 0)
           nextDayReferrersByCapacity ==
             [today.next EXCEPT ![sim.REFERRAL_CAPACITY_PER_USER] =
                                  @ + today.todaysNewReferrals]
           cumulative == cumulativeReferrals + today.todaysNewReferrals
       IN  dayLoop(sim, p, days, currentDay + 1, nextDayReferrersByCapacity,
                   cumulative, Append(dailyCumulativeReferrals, cumulative))

\* simulate(p, days): "ok" and the cumulative totals, or the error thrown.
\*   'Probability p must be between 0 and 1.'   InvalidProbability
\*   'Days must be a non-negative integer.'     InvalidDays
simulate(sim, p, days) ==
  IF p < 0 \/ p > PDen THEN [result |-> "InvalidProbability", value |-> <<>>]
  ELSE IF days < 0 THEN [result |-> "InvalidDays", value |-> <<>>]
  ELSE IF days = 0 THEN [result |-> "ok", value |-> <<>>]
  ELSE [result |-> "ok",
        value |-> dayLoop(sim, p, days, 0, InitialBuckets(sim), 0, <<>>)
                    .dailyCumulativeReferrals]

\* simulate(p, days + 0.5) when half, simulate(p, days) otherwise: a number
\* that is not an integer fails `days < 0 || !Number.isInteger(days)`.
simulateCall(sim, p, days, half) ==
  IF half /\ p >= 0 /\ p <= PDen
    THEN [result |-> "InvalidDays", value |-> <<>>]
  ELSE simulate(sim, p, days)

\* ------------------------------------------------------------ daysToTarget
\* MAX_SIMULATION_DAYS = 1e7
MAX_SIMULATION_DAYS == 10000000

\* x < 1e-9: the expected numbers are multiples of 1 / Scale and Scale is
\* below 10^9, so of the numbers x * Scale only those below 1 are below 1e-9.
Negligible(x) == x < 1

\* referrersByCapacity.slice(1).reduce((sum, count) => sum + count, 0)
RECURSIVE totalActiveReferrers(_, _, _)
totalActiveReferrers(sim, referrersByCapacity, c) ==
  IF c > sim.REFERRAL_CAPACITY_PER_USER THEN 0
  ELSE referrersByCapacity[c] + totalActiveReferrers(sim, referrersByCapacity, c + 1)

\* The inner loop of daysToTarget, over the capacity buckets 1..capacity.
RECURSIVE targetCapacityLoop(_, _, _, _, _, _)
targetCapacityLoop(sim, p, referrersByCapacity, userReferralCapacity, next, todaysNewReferrals) ==
  IF userReferralCapacity > sim.REFERRAL_CAPACITY_PER_USER
    THEN [next |-> next, todaysNewReferrals |-> todaysNewReferrals]
  ELSE LET referrersInBucket == referrersByCapacity[userReferralCapacity]
           successfulReferrals == (referrersInBucket * p) \div PDen
           unsuccessfulReferrals == (referrersInBucket * (PDen - p)) \div PDen
       IN  IF referrersInBucket = 0
             THEN targetCapacityLoop(sim, p, referrersByCapacity,
                                     userReferralCapacity + 1, next,
                                     todaysNewReferrals)
           ELSE targetCapacityLoop(sim, p, referrersByCapacity,
                  userReferralCapacity + 1,
                  [next EXCEPT
                     ![userReferralCapacity - 1] = @ + successfulReferrals,
                     ![userReferralCapacity] = @ + unsuccessfulReferrals],
                  todaysNewReferrals + successfulReferrals)

Finite(days) == [result |-> "ok", infinite |-> FALSE, days |-> days]
Infinity == [result |-> "ok", infinite |-> TRUE, days |-> 0]

\* The while loop of daysToTarget with `<=` for `<`: it goes on until the
\* target is exceeded.
RECURSIVE targetLoopUntilExceeded(_, _, _, _, _, _)
targetLoopUntilExceeded(sim, p, targetTotal, referrersByCapacity, cumulativeReferrals, days) ==
  IF ~(cumulativeReferrals <= targetTotal * Scale) THEN Finite(days)
  ELSE IF days >= MAX_SIMULATION_DAYS THEN Infinity
  ELSE LET today == targetCapacityLoop(sim, p, referrersByCapacity, 1,
                                       ZeroBuckets(sim), 0)
           nextDayReferrersByCapacity ==
             [today.next EXCEPT ![sim.REFERRAL_CAPACITY_PER_USER] =
                                  @ + today.todaysNewReferrals]
       IN  IF /\ Negligible(today.todaysNewReferrals)
              /\ Negligible(totalActiveReferrers(sim, referrersByCapacity, 1))
             THEN Infinity
           ELSE targetLoopUntilExceeded(sim, p, targetTotal,
                  nextDayReferrersByCapacity,
                  cumulativeReferrals + today.todaysNewReferrals, days + 1)

\* The while loop of daysToTarget.
RECURSIVE targetLoop(_, _, _, _, _, _)
targetLoop(sim, p, targetTotal, referrersByCapacity, cumulativeReferrals, days) ==
  IF ~(cumulativeReferrals < targetTotal * Scale) THEN Finite(days)
  ELSE IF days >= MAX_SIMULATION_DAYS THEN Infinity
  ELSE LET today == targetCapacityLoop(sim, p, referrersByCapacity, 1,
                                       ZeroBuckets(sim), 0)
           nextDayReferrersByCapacity ==
             [today.next EXCEPT ![sim.REFERRAL_CAPACITY_PER_USER] =
                                  @ + today.todaysNewReferrals]
       IN  IF /\ Negligible(today.todaysNewReferrals)
              /\ Negligible(totalActiveReferrers(sim, referrersByCapacity, 1))
             THEN Infinity
           ELSE targetLoop(sim, p, targetTotal, nextDayReferrersByCapacity,
                           cumulativeReferrals + today.todaysNewReferrals,
                           days + 1)

TargetError(res) == [result |-> res, infinite |-> FALSE, days |-> 0]

\* daysToTarget that gives up at p = 1 as it does at p = 0.
daysToTargetGivesUpAtOne(sim, p, targetTotal) ==
  IF p < 0 \/ p > PDen THEN TargetError("InvalidProbability")
  ELSE IF targetTotal < 0 THEN TargetError("InvalidTarget")
  ELSE IF p = 0 \/ p = PDen THEN Infinity
  ELSE targetLoop(sim, p, targetTotal, InitialBuckets(sim), 0, 0)

\* daysToTarget that answers 0 days at p = 0.
daysToTargetZeroAtZero(sim, p, targetTotal) ==
  IF p < 0 \/ p > PDen THEN TargetError("InvalidProbability")
  ELSE IF targetTotal < 0 THEN TargetError("InvalidTarget")
  ELSE IF p = 0 THEN Finite(0)
  ELSE targetLoop(sim, p, targetTotal, InitialBuckets(sim), 0, 0)

\* daysToTarget(p, targetTotal): "ok" and the day count or Infinity, or the
\* error thrown.
\*   'Probability p must be between 0 and 1.'        InvalidProbability
\*   'Target total must be a non-negative integer.'  InvalidTarget
daysToTarget(sim, p, targetTotal) ==
  IF p < 0 \/ p > PDen THEN TargetError("InvalidProbability")
  ELSE IF targetTotal < 0 THEN TargetError("InvalidTarget")
  ELSE IF p = 0 THEN Infinity
  ELSE targetLoop(sim, p, targetTotal, InitialBuckets(sim), 0, 0)

\* daysToTarget that rounds a target that is not an integer down.
daysToTargetCallRoundsDown(sim, p, targetTotal, half) ==
  daysToTarget(sim, p, targetTotal)

\* daysToTarget(p, targetTotal + 0.5) when half, daysToTarget(p, targetTotal)
\* otherwise.
daysToTargetCall(sim, p, targetTotal, half) ==
  IF half /\ p >= 0 /\ p <= PDen THEN TargetError("InvalidTarget")
  ELSE daysToTarget(sim, p, targetTotal)

NoSimulation == [op |-> "none", p |-> 0, days |-> 0, targetTotal |-> 0,
                 half |-> FALSE, result |-> "ok", value |-> <<>>,
                 infinite |-> FALSE, daysReturned |-> 0]

\* ------------------------------------------------- ReferralBonusOptimizer
\* Model of the class ReferralBonusOptimizer of
\* src/src/NetworkGrowthSimulation.ts (lines 263-333).  Bonuses are integers.
MaxBonus == 2
MaxIncrement == 2

\* The defaults of the constructor.
DefaultMaxBonus == 1000000
DefaultBonusIncrement == 10

\* new ReferralBonusOptimizer(simulator, ...args): args holds the arguments
\* passed after the simulator, in the order maxBonus, bonusIncrement.
NewOptimizer(args) ==
  [MAX_BONUS |-> IF Len(args) >= 1 THEN args[1] ELSE DefaultMaxBonus,
   BONUS_INCREMENT |->
     IF Len(args) >= 2 THEN args[2] ELSE DefaultBonusIncrement]

\* The argument lists an optimizer is constructed with.
OptimizerArgs ==
  {<<>>} \cup {<<m>> : m \in 0..MaxBonus}
         \cup {<<m, i>> : m \in 0..MaxBonus, i \in 1..MaxIncrement}

\* The functions callers pass as adoptionProbabilityFunction: any probability
\* for each bonus in 0..MaxBonus, and the probability of MaxBonus for every
\* larger bonus.
AdoptionFunctions == [0..MaxBonus -> 0..PDen]
adoptionProbabilityFunction(fn, bonus) ==
  fn[IF bonus > MaxBonus THEN MaxBonus ELSE bonus]

\* arr[arr.length - 1] ?? 0
lastOrZero(arr) == IF arr = <<>> THEN 0 ELSE arr[Len(arr)]

\* What getMinBonusForTarget returns: a bonus or null, or the error that
\* simulate threw; calls counts the calls of adoptionProbabilityFunction and
\* of simulate, which are made in pairs; steps records every test of the
\* loop condition of line 311 with the bounds it saw and, when the loop was
\* entered, the midpoint of lines 313-315.
Bonus(value, calls) ==
  [result |-> "ok", null |-> FALSE, value |-> value, calls |-> calls,
   steps |-> <<>>]
NullBonus(calls) ==
  [result |-> "ok", null |-> TRUE, value |-> 0, calls |-> calls,
   steps |-> <<>>]
BonusError(res, calls) ==
  [result |-> res, null |-> FALSE, value |-> 0, calls |-> calls,
   steps |-> <<>>]
LoopStep(lower, upper, midBonus) ==
  [entered |-> TRUE, lower |-> lower, upper |-> upper, midBonus |-> midBonus]
LoopExit(lower, upper) ==
  [entered |-> FALSE, lower |-> lower, upper |-> upper, midBonus |-> lower]

\* The binary search with the test of line 322 turned round: a bonus counts
\* as sufficient when its hires do not exceed the target.
RECURSIVE bonusSearchAtMost(_, _, _, _, _, _, _, _, _, _)
bonusSearchAtMost(opt, sim, days, targetHires, fn, bonusLowerBound, bonusUpperBound, minAchievableBonus, calls, steps) ==
  IF ~(bonusLowerBound <= bonusUpperBound)
    THEN [Bonus(minAchievableBonus, calls) EXCEPT
            !.steps = Append(steps, LoopExit(bonusLowerBound, bonusUpperBound))]
  ELSE LET midBonus ==
             ((bonusLowerBound + bonusUpperBound) \div (2 * opt.BONUS_INCREMENT))
               * opt.BONUS_INCREMENT
           p == adoptionProbabilityFunction(fn, midBonus)
           dailyHires == simulate(sim, p, days)
           totalHires == lastOrZero(dailyHires.value)
           entered == Append(steps, LoopStep(bonusLowerBound, bonusUpperBound,
                                             midBonus))
       IN  IF dailyHires.result # "ok"
             THEN [BonusError(dailyHires.result, calls + 1) EXCEPT
                     !.steps = entered]
           ELSE IF totalHires <= targetHires * Scale
             THEN bonusSearchAtMost(opt, sim, days, targetHires, fn,
                    bonusLowerBound, midBonus - opt.BONUS_INCREMENT,
                    midBonus, calls + 1, entered)
           ELSE bonusSearchAtMost(opt, sim, days, targetHires, fn,
                  midBonus + opt.BONUS_INCREMENT, bonusUpperBound,
                  minAchievableBonus, calls + 1, entered)

\* The binary search with Math.ceil for Math.floor in line 314.
RECURSIVE bonusSearchRoundsUp(_, _, _, _, _, _, _, _, _, _)
bonusSearchRoundsUp(opt, sim, days, targetHires, fn, bonusLowerBound, bonusUpperBound, minAchievableBonus, calls, steps) ==
  IF ~(bonusLowerBound <= bonusUpperBound)
    THEN [Bonus(minAchievableBonus, calls) EXCEPT
            !.steps = Append(steps, LoopExit(bonusLowerBound, bonusUpperBound))]
  ELSE LET midBonus ==
             ((bonusLowerBound + bonusUpperBound + 2 * opt.BONUS_INCREMENT - 1)
                \div (2 * opt.BONUS_INCREMENT)) * opt.BONUS_INCREMENT
           p == adoptionProbabilityFunction(fn, midBonus)
           dailyHires == simulate(sim, p, days)
           totalHires == lastOrZero(dailyHires.value)
           entered == Append(steps, LoopStep(bonusLowerBound, bonusUpperBound,
                                             midBonus))
       IN  IF dailyHires.result # "ok"
             THEN [BonusError(dailyHires.result, calls + 1) EXCEPT
                     !.steps = entered]
           ELSE IF totalHires >= targetHires * Scale
             THEN bonusSearchRoundsUp(opt, sim, days, targetHires, fn,
                    bonusLowerBound, midBonus - opt.BONUS_INCREMENT,
                    midBonus, calls + 1, entered)
           ELSE bonusSearchRoundsUp(opt, sim, days, targetHires, fn,
                  midBonus + opt.BONUS_INCREMENT, bonusUpperBound,
                  minAchievableBonus, calls + 1, entered)

\* The binary search of getMinBonusForTarget.
RECURSIVE bonusSearch(_, _, _, _, _, _, _, _, _, _)
bonusSearch(opt, sim, days, targetHires, fn, bonusLowerBound, bonusUpperBound, minAchievableBonus, calls, steps) ==
  IF ~(bonusLowerBound <= bonusUpperBound)
    THEN [Bonus(minAchievableBonus, calls) EXCEPT
            !.steps = Append(steps, LoopExit(bonusLowerBound, bonusUpperBound))]
  ELSE LET midBonus ==
             ((bonusLowerBound + bonusUpperBound) \div (2 * opt.BONUS_INCREMENT))
               * opt.BONUS_INCREMENT
           p == adoptionProbabilityFunction(fn, midBonus)
           dailyHires == simulate(sim, p, days)
           totalHires == lastOrZero(dailyHires.value)
           entered == Append(steps, LoopStep(bonusLowerBound, bonusUpperBound,
                                             midBonus))
       IN  IF dailyHires.result # "ok"
             THEN [BonusError(dailyHires.result, calls + 1) EXCEPT
                     !.steps = entered]
           ELSE IF totalHires >= targetHires * Scale
             THEN bonusSearch(opt, sim, days, targetHires, fn,
                    bonusLowerBound, midBonus - opt.BONUS_INCREMENT,
                    midBonus, calls + 1, entered)
           ELSE bonusSearch(opt, sim, days, targetHires, fn,
                  midBonus + opt.BONUS_INCREMENT, bonusUpperBound,
                  minAchievableBonus, calls + 1, entered)

\* getMinBonusForTarget without the check at the maximum bonus.
getMinBonusForTargetUnchecked(opt, sim, days, targetHires, fn, eps) ==
  IF days < 0 \/ targetHires <= 0 THEN Bonus(0, 0)
  ELSE IF days = 0 THEN NullBonus(0)
  ELSE bonusSearch(opt, sim, days, targetHires, fn,
                   0, opt.MAX_BONUS, opt.MAX_BONUS, 0, <<>>)

\* getMinBonusForTarget with lines 295 and 296 in the other order.
getMinBonusForTargetNullFirst(opt, sim, days, targetHires, fn, eps) ==
  IF days = 0 THEN NullBonus(0)
  ELSE IF days < 0 \/ targetHires <= 0 THEN Bonus(0, 0)
  ELSE LET maxProb == adoptionProbabilityFunction(fn, opt.MAX_BONUS)
           maxHiresArr == simulate(sim, maxProb, days)
           maxPossibleHires == lastOrZero(maxHiresArr.value)
       IN  IF maxHiresArr.result # "ok"
             THEN BonusError(maxHiresArr.result, 1)
           ELSE IF maxPossibleHires < targetHires * Scale THEN NullBonus(1)
           ELSE bonusSearch(opt, sim, days, targetHires, fn,
                            0, opt.MAX_BONUS, opt.MAX_BONUS, 1, <<>>)

\* getMinBonusForTarget(days, targetHires, adoptionProbabilityFunction, eps)
\* of an optimizer opt that wraps the simulator sim; eps is not read.
getMinBonusForTarget(opt, sim, days, targetHires, fn, eps) ==
  IF days < 0 \/ targetHires <= 0 THEN Bonus(0, 0)
  ELSE IF days = 0 THEN NullBonus(0)
  ELSE LET maxProb == adoptionProbabilityFunction(fn, opt.MAX_BONUS)
           maxHiresArr == simulate(sim, maxProb, days)
           maxPossibleHires == lastOrZero(maxHiresArr.value)
       IN  IF maxHiresArr.result # "ok"
             THEN BonusError(maxHiresArr.result, 1)
           ELSE IF maxPossibleHires < targetHires * Scale THEN NullBonus(1)
           ELSE bonusSearch(opt, sim, days, targetHires, fn,
                            0, opt.MAX_BONUS, opt.MAX_BONUS, 1, <<>>)

NoOptimization ==
  [op |-> "none", days |-> 0, targetHires |-> 0,
   fn |-> [b \in 0..MaxBonus |-> 0],
   result |-> "ok", null |-> FALSE, value |-> 0, calls |-> 0,
   steps |-> <<>>]

\* ------------------------------------------------------------ transitions
NoCall == [op |-> "none", id |-> Null, referrerId |-> Null,
           result |-> "ok", created |-> Null]

Init ==
  /\ users = <<>>
  /\ last = NoCall
  /\ pre = <<>>
  /\ simulation = NewSimulation(<<>>)
  /\ simulated = NoSimulation
  /\ optimizer = NewOptimizer(<<>>)
  /\ optimized = NoOptimization
  /\ minHeap = <<>>
  /\ heaped = NoHeapCall

\* A call is explored unless it would grow the Map beyond MaxUsers.
Fits(out) == Len(out.users) <= MaxUsers

\* The call runs to completion: the Map is what the call left, also when it
\* threw.
Call(op, id, referrerId, out) ==
  /\ users' = out.users
  /\ pre' = users
  /\ last' = [op |-> op, id |-> id, referrerId |-> referrerId,
              result |-> out.result, created |-> out.created]
  /\ UNCHANGED <<simulation, simulated, optimizer, optimized, minHeap, heaped>>

RegisterUser ==
  \E id \in Ids, referrerId \in Ids \cup {Undefined} :
    LET out == registerUserCall(users, id, referrerId, Null)
    IN  /\ Fits(out)
        /\ Call("registerUser", id, referrerId, out)

\* registerUser with id omitted.  crypto.randomUUID() is called by the User
\* constructor only, and returns an id no user of the network has.
RegisterUserNoId ==
  \E referrerId \in Ids \cup {Undefined}, uuid \in UuidPool :
    LET out == registerUserCall(users, Undefined, referrerId, uuid)
    IN  /\ out.created # Null => uuid \notin Keys(users)
        /\ Fits(out)
        /\ Call("registerUser", Undefined, referrerId, out)

LinkUserToReferrer ==
  \E referrerId \in Ids, userId \in Ids :
    LET out == linkUserToReferrerCall(users, referrerId, userId)
    IN  /\ Fits(out)
        /\ Call("linkUserToReferrer", userId, referrerId, out)

DeleteUser ==
  \E id \in Ids :
    LET out == deleteUserCall(users, id)
    IN  /\ Fits(out)
        /\ Call("deleteUser", id, Null, out)

Next ==
  \/ RegisterUser
  \/ RegisterUserNoId
  \/ LinkUserToReferrer
  \/ DeleteUser

Spec == Init /\ [][Next]_vars

\* ------------------------------------------- transitions of returned calls
\* The same four operations, where only a call that returned is a step: a
\* call that threw is not recorded.  The networks reached are those of Spec
\* as long as a call that throws leaves the network as it was.
Returned(out) == out.result = "ok" /\ Len(out.users) <= MaxAppliedUsers

RegisterUserApplied ==
  \E id \in Ids, referrerId \in Ids \cup {Undefined} :
    LET out == registerUserCall(users, id, referrerId, Null)
    IN  /\ Returned(out)
        /\ Call("registerUser", id, referrerId, out)

RegisterUserNoIdApplied ==
  \E referrerId \in Ids \cup {Undefined}, uuid \in UuidPool \ Keys(users) :
    LET out == registerUserCall(users, Undefined, referrerId, uuid)
    IN  /\ Returned(out)
        /\ Call("registerUser", Undefined, referrerId, out)

LinkUserToReferrerApplied ==
  \E referrerId \in Ids, userId \in Ids :
    LET out == linkUserToReferrerCall(users, referrerId, userId)
    IN  /\ Returned(out)
        /\ Call("linkUserToReferrer", userId, referrerId, out)

DeleteUserApplied ==
  \E id \in Ids :
    LET out == deleteUserCall(users, id)
    IN  /\ Returned(out)
        /\ Call("deleteUser", id, Null, out)

NextApplied ==
  \/ RegisterUserApplied
  \/ RegisterUserNoIdApplied
  \/ LinkUserToReferrerApplied
  \/ DeleteUserApplied

SpecApplied == Init /\ [][NextApplied]_vars

\* ------------------------------------------ transitions of the simulation
\* A simulation is constructed with a number of initial referrers and a
\* capacity, or with the defaults; the network stays empty.
InitSimulation ==
  /\ users = <<>>
  /\ last = NoCall
  /\ pre = <<>>
  /\ \E args \in SimulationArgs : simulation = NewSimulation(args)
  /\ simulated = NoSimulation
  /\ optimizer = NewOptimizer(<<>>)
  /\ optimized = NoOptimization
  /\ minHeap = <<>>
  /\ heaped = NoHeapCall

Simulate ==
  \E p \in Probabilities, days \in DayCounts, half \in BOOLEAN :
    LET out == simulateCall(simulation, p, days, half)
    IN  /\ simulated' = [NoSimulation EXCEPT
                           !.op = "simulate", !.p = p, !.days = days,
                           !.half = half, !.result = out.result,
                           !.value = out.value]
        /\ UNCHANGED <<users, last, pre, simulation, optimizer, optimized, minHeap, heaped>>

DaysToTarget ==
  \E p \in Probabilities, targetTotal \in Targets, half \in BOOLEAN :
    LET out == daysToTargetCall(simulation, p, targetTotal, half)
    IN  /\ simulated' = [NoSimulation EXCEPT
                           !.op = "daysToTarget", !.p = p,
                           !.targetTotal = targetTotal, !.half = half,
                           !.result = out.result,
                           !.infinite = out.infinite,
                           !.daysReturned = out.days]
        /\ UNCHANGED <<users, last, pre, simulation, optimizer, optimized, minHeap, heaped>>

NextSimulation == Simulate \/ DaysToTarget

SpecSimulation == InitSimulation /\ [][NextSimulation]_vars

\* -------------------------------------------- transitions of the optimizer
\* The simulators an optimizer wraps: the default one, one referrer with
\* capacity 1, and the largest of the model.
OptimizerSimulationArgs ==
  {<<>>, <<1, 1>>, <<MaxInitialReferrers, MaxCapacity>>}

InitOptimizer ==
  /\ users = <<>>
  /\ last = NoCall
  /\ pre = <<>>
  /\ \E args \in OptimizerSimulationArgs : simulation = NewSimulation(args)
  /\ simulated = NoSimulation
  /\ \E args \in OptimizerArgs : optimizer = NewOptimizer(args)
  /\ minHeap = <<>>
  /\ heaped = NoHeapCall
  /\ \E days \in DayCounts, targetHires \in Targets, fn \in AdoptionFunctions :
       optimized = [NoOptimization EXCEPT !.days = days,
                                          !.targetHires = targetHires,
                                          !.fn = fn]

\* The call of getMinBonusForTarget with the arguments drawn at the start;
\* the function keeps no state, so one call for each optimizer and argument
\* list is every call.
GetMinBonusForTarget ==
  \E eps \in {0, 1} :
    LET out == getMinBonusForTarget(optimizer, simulation, optimized.days,
                                    optimized.targetHires, optimized.fn, eps)
    IN  /\ optimized.op = "none"
        /\ optimized' = [optimized EXCEPT
                           !.op = "getMinBonusForTarget",
                           !.result = out.result, !.null = out.null,
                           !.value = out.value, !.calls = out.calls,
                           !.steps = out.steps]
        /\ UNCHANGED <<users, last, pre, simulation, simulated, optimizer, minHeap, heaped>>

NextOptimizer == GetMinBonusForTarget

SpecOptimizer == InitOptimizer /\ [][NextOptimizer]_vars

\* ------------------------------------------------ transitions of the heap
InitHeap ==
  /\ users = <<>>
  /\ last = NoCall
  /\ pre = <<>>
  /\ simulation = NewSimulation(<<>>)
  /\ simulated = NoSimulation
  /\ optimizer = NewOptimizer(<<>>)
  /\ optimized = NoOptimization
  /\ minHeap = <<>>
  /\ heaped = NoHeapCall

\* add(element): the element is a new object, told apart by its id.
HeapAdd ==
  \E score \in 0..MaxScore :
    LET element == [id |-> heaped.adds + 1, score |-> score]
    IN  /\ heaped.adds < MaxHeapAdds
        /\ minHeap' = heapAdd(minHeap, element)
        /\ heaped' = [heaped EXCEPT !.op = "add", !.result = "ok",
                                    !.element = element, !.before = minHeap,
                                    !.adds = heaped.adds + 1]
        /\ UNCHANGED <<users, last, pre, simulation, simulated, optimizer, optimized>>

HeapPeek ==
  LET out == heapPeekCall(minHeap)
  IN  /\ heaped' = [heaped EXCEPT !.op = "peek", !.result = out.result,
                                  !.element = out.element, !.before = minHeap]
      /\ UNCHANGED <<users, last, pre, simulation, simulated, optimizer, optimized, minHeap>>

HeapRemove ==
  LET out == heapRemoveCall(minHeap)
  IN  /\ minHeap' = out.heap
      /\ heaped' = [heaped EXCEPT
                      !.op = "remove", !.result = out.result,
                      !.element = NoElement, !.before = minHeap,
                      !.removes = IF out.result = "ok" THEN heaped.removes + 1
                                  ELSE heaped.removes]
      /\ UNCHANGED <<users, last, pre, simulation, simulated, optimizer, optimized>>

NextHeap == HeapAdd \/ HeapPeek \/ HeapRemove

SpecHeap == InitHeap /\ [][NextHeap]_vars

\* ------------------------------------------------------------ type invariant
UserOK(u) ==
  /\ u.id \in Ids
  /\ u.referrerId \in Ids \cup {Null}
  /\ \A i \in DOMAIN u.referrals : u.referrals[i] \in Ids

TypeOK ==
  /\ \A i \in DOMAIN users : UserOK(users[i])
  /\ Len(users) <= MaxUsers
  /\ last.result \in Errors \cup {"ok"}

\* ------------------------------------------------------- reading the forest
ReferrerOf(us, id) == GetUser(us, id).referrerId
ReferralsOf(us, id) == Range(GetUser(us, id).referrals)

\* The users reached from id by following one or more referrerId edges (an
\* edge is any referrerId other than null that names a present user).
RECURSIVE AncestorsFrom(_, _, _)
AncestorsFrom(us, id, seen) ==
  IF ~Has(us, id) THEN {}
  ELSE LET r == ReferrerOf(us, id)
       IN  IF r = Null \/ r \in seen \/ ~Has(us, r) THEN {}
           ELSE {r} \cup AncestorsFrom(us, r, seen \cup {r})

Ancestors(us, id) == AncestorsFrom(us, id, {})

IsLink == last.op = "linkUserToReferrer"
IsRegister == last.op = "registerUser"
IsDelete == last.op = "deleteUser"

\* ------------------------------------------------------------------ claims

\* C1: after any sequence of calls the graph of referrerId edges is acyclic:
\* following referrerId from a user never comes back to that user (and no
\* user is its own referrer).
C1_Acyclic == \A id \in Keys(users) : id \notin Ancestors(users, id)

\* C2: for every user U the referrals set of U is exactly the set of existing
\* users whose referrerId is U.id (so a referral of U reports referrerId = U,
\* and no user is in two referrals sets).
C2_ReferralsMatchReferrers ==
  \A id \in Keys(users) :
    ReferralsOf(users, id) = {v \in Keys(users) : ReferrerOf(users, v) = id}

\* C3: every user's referrerId is null or the id of a user that exists.
C3_ReferrerExists ==
  \A id \in Keys(users) :
    ReferrerOf(users, id) = Null \/ Has(users, ReferrerOf(users, id))

\* C4: linkUserToReferrer(referrerId, userId) on two existing users fails with
\* CycleDetected whenever userId is an ancestor of referrerId.
C4_CycleDetected ==
  ( /\ IsLink
    /\ Has(pre, last.id) /\ Has(pre, last.referrerId)
    /\ last.id \in Ancestors(pre, last.referrerId) )
  => last.result = "CycleDetected"

\* C5: a call of registerUser, linkUserToReferrer or deleteUser that fails
\* leaves the network exactly as it was: the users, their order, every
\* referrerId and every referrals set with its order.
C5_FailureChangesNothing == last.result # "ok" => users = pre

\* C5 witness: a link was rejected as a cycle in a network that holds a chain.
C5_Witness ==
  /\ IsLink /\ last.result = "CycleDetected"
  /\ last.id # last.referrerId
  /\ Len(users) >= 2 /\ users = pre

\* C6: registerUser(id, referrerId) with id equal to referrerId fails with
\* SelfReferral in every state of the network.
C6_SelfReferral ==
  (IsRegister /\ last.id \in Ids /\ last.id = last.referrerId)
  => last.result = "SelfReferral"

\* C7: registerUser with id omitted, and referrerId omitted or naming an
\* existing user, succeeds: it adds exactly one user, under an id the network
\* did not have, as a root when no referrer was given and attached to the
\* referrer otherwise.
C7_GeneratedId ==
  ( /\ IsRegister /\ last.id = Undefined
    /\ last.referrerId = Undefined \/ Has(pre, last.referrerId) )
  => /\ last.result = "ok"
     /\ last.created \notin Keys(pre)
     /\ Keys(users) = Keys(pre) \cup {last.created}
     /\ Len(users) = Len(pre) + 1
     /\ IF last.referrerId = Undefined
          THEN ReferrerOf(users, last.created) = Null
          ELSE /\ ReferrerOf(users, last.created) = last.referrerId
               /\ last.created \in ReferralsOf(users, last.referrerId)

\* C8: linkUserToReferrer on two existing users fails with AlreadyReferred
\* whenever userId has a referrerId other than null, and the user keeps its
\* referrer.
C8_AlreadyReferred ==
  ( /\ IsLink
    /\ Has(pre, last.id) /\ Has(pre, last.referrerId)
    /\ ReferrerOf(pre, last.id) # Null )
  => /\ last.result = "AlreadyReferred"
     /\ Has(users, last.id)
     /\ ReferrerOf(users, last.id) = ReferrerOf(pre, last.id)

\* C9: after a successful deleteUser(id) every former direct referral of id
\* has referrerId = null, and id is absent everywhere: the three queries fail
\* with UnknownUser, no referrals set holds id, no referrerId is id.
C9_DeletedIsGone ==
  (IsDelete /\ last.result = "ok")
  => /\ \A c \in ReferralsOf(pre, last.id) \cap Keys(users) :
          ReferrerOf(users, c) = Null
     /\ getUserDetails(users, last.id).result = "UnknownUser"
     /\ getDirectReferrals(users, last.id).result = "UnknownUser"
     /\ getTotalReferralCount(users, last.id).result = "UnknownUser"
     /\ \A u \in Keys(users) :
          /\ last.id \notin ReferralsOf(users, u)
          /\ ReferrerOf(users, u) # last.id

\* C10: deleteUser(id) removes exactly the user id; a user that was not a
\* direct referral of id keeps its referrerId; every referrals set is as it
\* was, except that the former referrer of id has lost exactly id.
C10_DeleteFrame ==
  (IsDelete /\ last.result = "ok")
  => /\ Keys(users) = Keys(pre) \ {last.id}
     /\ Len(users) = Len(pre) - 1
     /\ \A u \in Keys(users) :
          /\ u \notin ReferralsOf(pre, last.id)
               => ReferrerOf(users, u) = ReferrerOf(pre, u)
          /\ GetUser(users, u).referrals =
               IF u = ReferrerOf(pre, last.id)
                 THEN SetDelete(GetUser(pre, u).referrals, last.id)
                 ELSE GetUser(pre, u).referrals
          /\ u = ReferrerOf(pre, last.id)
               => last.id \notin ReferralsOf(users, u)

\* ------------------------------------------------ reading the query results
\* The users that have id as an ancestor along referrerId edges.
Descendants(us, id) == {v \in Keys(us) : id \in Ancestors(us, v)}

EntryIds(entries) == {entries[i].id : i \in DOMAIN entries}
DistinctIds(entries) ==
  \A i, j \in DOMAIN entries : entries[i].id = entries[j].id => i = j
NonIncreasing(entries) ==
  \A i, j \in DOMAIN entries : i < j => entries[i].score >= entries[j].score

RECURSIVE SumOfScores(_)
SumOfScores(entries) ==
  IF entries = <<>> THEN 0 ELSE Head(entries).score + SumOfScores(Tail(entries))

Min(a, b) == IF a <= b THEN a ELSE b

\* The values of k the queries are asked with in a network.
Ks == 0..(Len(users) + 1)

\* C11: a referrerId changes only from null to the referrer named by a
\* successful linkUserToReferrer of that user, and from non-null to null by
\* deleteUser of that referrer; never from one referrer to another.
C11_ReferrerTransitions ==
  \A u \in Keys(pre) \cap Keys(users) :
    LET before == ReferrerOf(pre, u)
        after  == ReferrerOf(users, u)
    IN  before # after =>
          \/ /\ before = Null
             /\ IsLink /\ last.result = "ok"
             /\ last.id = u /\ after = last.referrerId
          \/ /\ before # Null /\ after = Null
             /\ IsDelete /\ last.result = "ok" /\ last.id = before

C13_AttachmentOrder ==
  \A id \in Keys(pre) \cap Keys(users) :
    LET before == getDirectReferrals(pre, id).value
        after  == getDirectReferrals(users, id).value
    IN  after =
          IF last.result # "ok" THEN before
          ELSE IF IsRegister /\ last.referrerId = id
            THEN Append(SetDelete(before, last.created), last.created)
          ELSE IF IsLink /\ last.referrerId = id
            THEN Append(SetDelete(before, last.id), last.id)
          ELSE IF IsDelete /\ ReferrerOf(pre, last.id) = id
            THEN SetDelete(before, last.id)
          ELSE before

\* C14: getTotalReferralCount(id) is the number of users that have id as an
\* ancestor, for every user of the network, and fails with UnknownUser for
\* an id that is absent.
C14_TotalReferralCount ==
  \A id \in Ids :
    IF Has(users, id)
      THEN getTotalReferralCount(users, id) =
             [result |-> "ok", value |-> Cardinality(Descendants(users, id))]
      ELSE getTotalReferralCount(users, id).result = "UnknownUser"

\* C15: getTopReferrersByReach(k) returns min(k, number of users) entries with
\* distinct ids in non-increasing order of score, for every k >= 0.
C15_TopReferrersShape ==
  \A k \in Ks :
    LET r == getTopReferrersByReach(users, k)
    IN  /\ r.result = "ok"
        /\ Len(r.value) = Min(k, Len(users))
        /\ EntryIds(r.value) \subseteq Keys(users)
        /\ DistinctIds(r.value)
        /\ NonIncreasing(r.value)

\* C16: what getTopReferrersByReach(k) returns is a top-k set: the score of
\* every entry is getTotalReferralCount of its id, and no user left out has a
\* reach above the smallest score returned.
C16_TopReferrersAreTop ==
  \A k \in Ks :
    LET r == getTopReferrersByReach(users, k)
    IN  r.result = "ok" =>
          /\ \A i \in DOMAIN r.value :
               getTotalReferralCount(users, r.value[i].id) =
                 [result |-> "ok", value |-> r.value[i].score]
          /\ \A u \in Keys(users) \ EntryIds(r.value) :
               \A i \in DOMAIN r.value :
                 /\ getTotalReferralCount(users, u).result = "ok"
                 /\ getTotalReferralCount(users, u).value <= r.value[i].score

\* C16 witness: after a deletion, the top 1 of two or more users of different
\* reach was returned.
C16_Witness ==
  /\ IsDelete /\ Len(users) >= 2
  /\ getTopReferrersByReach(users, 1).result = "ok"
  /\ getTopReferrersByReach(users, 1).value[1].score > 0
  /\ \E u \in Keys(users) : getTotalReferralCount(users, u) =
                              [result |-> "ok", value |-> 0]

\* C17: getUniqueReachExpansion() returns exactly the roots (referrerId =
\* null) that have a descendant, each once, with its reach as score, in
\* non-increasing order of score.
C17_UniqueReachRoots ==
  LET r == getUniqueReachExpansion(users)
  IN  /\ r.result = "ok"
      /\ EntryIds(r.value) =
           {u \in Keys(users) :
              ReferrerOf(users, u) = Null /\ Descendants(users, u) # {}}
      /\ DistinctIds(r.value)
      /\ \A i \in DOMAIN r.value :
           r.value[i].score = Cardinality(Descendants(users, r.value[i].id))
      /\ NonIncreasing(r.value)

\* C18: the users getUniqueReachExpansion() returns have pairwise disjoint
\* descendant sets that together hold every user that has a referrer, and the
\* scores add up to the number of users minus the number of roots.
C18_UniqueReachCoverage ==
  LET r == getUniqueReachExpansion(users)
      referred == {u \in Keys(users) : ReferrerOf(users, u) # Null}
  IN  /\ r.result = "ok"
      /\ \A a, b \in EntryIds(r.value) :
           a # b => Descendants(users, a) \cap Descendants(users, b) = {}
      /\ UNION {Descendants(users, a) : a \in EntryIds(r.value)} = referred
      /\ SumOfScores(r.value) = Cardinality(referred)

\* C19: getFlowCentrality() returns one entry for every user, with score =
\* (number of referrer edges up to the root) * (number of descendants), in
\* non-increasing order of score.
C19_FlowCentrality ==
  LET r == getFlowCentrality(users)
  IN  /\ r.result = "ok"
      /\ EntryIds(r.value) = Keys(users)
      /\ DistinctIds(r.value)
      /\ \A i \in DOMAIN r.value :
           r.value[i].score =
             Cardinality(Ancestors(users, r.value[i].id)) *
             Cardinality(Descendants(users, r.value[i].id))
      /\ NonIncreasing(r.value)

\* C20: simulate(0, n) returns n entries that are all 0, for every n >= 0,
\* and simulate(p, 0) returns the empty sequence for every p in [0, 1].
C20_SimulateZeroCases ==
  (simulated.op = "simulate" /\ ~simulated.half) =>
    /\ (simulated.p = 0 /\ simulated.days >= 0) =>
         /\ simulated.result = "ok"
         /\ Len(simulated.value) = simulated.days
         /\ \A i \in DOMAIN simulated.value : simulated.value[i] = 0
    /\ (simulated.p \in 0..PDen /\ simulated.days = 0) =>
         /\ simulated.result = "ok"
         /\ simulated.value = <<>>

\* C20 witness: referrers with capacity left were simulated for two or more
\* days with p = 0.
C20_Witness ==
  /\ simulated.op = "simulate" /\ ~simulated.half
  /\ simulated.p = 0 /\ simulated.days >= 2
  /\ simulation.INITIAL_REFERRERS > 0
  /\ simulation.REFERRAL_CAPACITY_PER_USER > 0
  /\ simulated.result = "ok"
  /\ Len(simulated.value) = simulated.days
  /\ \A i \in DOMAIN simulated.value : simulated.value[i] = 0

\* ---------------------------------------------- reading the simulation calls
\* The cumulative total after d days: the last entry of simulate(p, d), and 0
\* after no day.
CumulativeAfter(sim, p, d) ==
  IF d = 0 THEN 0 ELSE simulate(sim, p, d).value[d]

\* a is no later than b, with Infinity later than every day count.
NoLater(a, b) == b.infinite \/ (~a.infinite /\ a.days <= b.days)

SimulateReturned ==
  simulated.op = "simulate" /\ ~simulated.half /\ simulated.result = "ok"
DaysToTargetReturned ==
  simulated.op = "daysToTarget" /\ ~simulated.half /\ simulated.result = "ok"

\* C21: with p = 1, N initial referrers and capacity C, simulate(1, d) has at
\* index i-1 the value N * (2^i - 1) for every day i <= min(d, C): the
\* referrals of a day refer from the next day on, with full capacity.
C21_DoublingAtCertainty ==
  (SimulateReturned /\ simulated.p = PDen) =>
    \A i \in 1..Min(simulated.days, simulation.REFERRAL_CAPACITY_PER_USER) :
      simulated.value[i] =
        simulation.INITIAL_REFERRERS * (Pow(2, i) - 1) * Scale

\* C21 witness: two or more days at p = 1 within the capacity, 3N after day 2.
C21_Witness ==
  /\ SimulateReturned /\ simulated.p = PDen
  /\ simulated.days >= 2
  /\ simulation.REFERRAL_CAPACITY_PER_USER >= 2
  /\ simulation.INITIAL_REFERRERS >= 1
  /\ simulated.value[2] = 3 * simulation.INITIAL_REFERRERS * Scale

\* C22: a finite result d of daysToTarget(p, targetTotal) is the first day at
\* which the cumulative total of simulate reaches the target: the total after
\* d days is >= targetTotal and, if d > 0, the total after d - 1 days is below.
C22_FirstDayAtTarget ==
  (DaysToTargetReturned /\ ~simulated.infinite) =>
    LET d == simulated.daysReturned
    IN  /\ CumulativeAfter(simulation, simulated.p, d)
             >= simulated.targetTotal * Scale
        /\ d > 0 => CumulativeAfter(simulation, simulated.p, d - 1)
                      < simulated.targetTotal * Scale

\* C22 witness: a target met exactly, on the second day or later.
C22_Witness ==
  /\ DaysToTargetReturned /\ ~simulated.infinite
  /\ simulated.daysReturned >= 2
  /\ CumulativeAfter(simulation, simulated.p, simulated.daysReturned)
       = simulated.targetTotal * Scale

\* C23: daysToTarget(p, 0) returns 0 for every p in [0, 1], p = 0 included.
C23_ZeroTarget ==
  ( /\ simulated.op = "daysToTarget" /\ ~simulated.half
    /\ simulated.p \in 0..PDen /\ simulated.targetTotal = 0 )
  => /\ simulated.result = "ok"
     /\ ~simulated.infinite
     /\ simulated.daysReturned = 0

\* C24: daysToTarget(0, targetTotal) returns Infinity, not an error, for
\* every positive integer targetTotal.
C24_InfinityAtZero ==
  ( /\ simulated.op = "daysToTarget" /\ ~simulated.half
    /\ simulated.p = 0 /\ simulated.targetTotal > 0 )
  => /\ simulated.result = "ok"
     /\ simulated.infinite

\* C24 witness: daysToTarget(0, t) with t > 0 on referrers with capacity.
C24_Witness ==
  /\ simulated.op = "daysToTarget" /\ ~simulated.half
  /\ simulated.p = 0 /\ simulated.targetTotal > 0
  /\ simulation.INITIAL_REFERRERS > 0
  /\ simulation.REFERRAL_CAPACITY_PER_USER > 0
  /\ simulated.infinite

\* C25: daysToTarget is non-increasing in p for a fixed simulation and a
\* fixed target: for p1 <= p2 in [0, 1], daysToTarget(p2, t) is no later
\* than daysToTarget(p1, t), Infinity being later than every day count.
C25_MonotoneInP ==
  DaysToTargetReturned =>
    \A p1 \in 0..simulated.p :
      NoLater(daysToTarget(simulation, simulated.p, simulated.targetTotal),
              daysToTarget(simulation, p1, simulated.targetTotal))

\* C25 witness: a target that p = 1 reaches on a day, and a smaller p > 0
\* reaches on a later day.
C25_Witness ==
  /\ DaysToTargetReturned /\ ~simulated.infinite
  /\ simulated.p = PDen
  /\ \E p1 \in 1..(PDen - 1) :
       LET slower == daysToTarget(simulation, p1, simulated.targetTotal)
       IN  ~slower.infinite /\ slower.days > simulated.daysReturned

\* C26: simulate fails when p is outside [0, 1] or days is negative or not
\* an integer, daysToTarget fails when p is outside [0, 1] or targetTotal is
\* negative or not an integer; a call that fails returns nothing.
C26_InvalidInputRejected ==
  /\ ( /\ simulated.op = "simulate"
       /\ \/ simulated.p < 0 \/ simulated.p > PDen
          \/ simulated.days < 0 \/ simulated.half )
     => /\ simulated.result \in {"InvalidProbability", "InvalidDays"}
        /\ simulated.value = <<>>
  /\ ( /\ simulated.op = "daysToTarget"
       /\ \/ simulated.p < 0 \/ simulated.p > PDen
          \/ simulated.targetTotal < 0 \/ simulated.half )
     => /\ simulated.result \in {"InvalidProbability", "InvalidTarget"}
        /\ ~simulated.infinite /\ simulated.daysReturned = 0

\* C26 witness: daysToTarget was called with a valid p and a positive target
\* that is not an integer, and failed.
C26_Witness ==
  /\ simulated.op = "daysToTarget" /\ simulated.half
  /\ simulated.p \in 1..PDen /\ simulated.targetTotal >= 1
  /\ simulation.INITIAL_REFERRERS > 0
  /\ simulated.result = "InvalidTarget"

\* ----------------------------------------------- reading the optimizer calls
\* fn is monotonically non-decreasing.
Monotone(fn) == \A a, b \in DOMAIN fn : a <= b => fn[a] <= fn[b]

\* The final cumulative value of simulate(fn(bonus), days) meets the target.
MeetsTarget(bonus) ==
  lastOrZero(simulate(simulation,
                      adoptionProbabilityFunction(optimized.fn, bonus),
                      optimized.days).value)
    >= optimized.targetHires * Scale

\* The multiples of bonusIncrement in [0, top].
Multiples(top) ==
  {k * optimizer.BONUS_INCREMENT : k \in 0..(top \div optimizer.BONUS_INCREMENT)}

OptimizerCalled == optimized.op = "getMinBonusForTarget"

\* C27: a non-null result of getMinBonusForTarget is an exact multiple of
\* bonusIncrement, for every optimizer (maxBonus, bonusIncrement) and input.
C27_MultipleOfIncrement ==
  (OptimizerCalled /\ optimized.result = "ok" /\ ~optimized.null) =>
    optimized.value % optimizer.BONUS_INCREMENT = 0

\* C28: with a monotone adoptionProbFn, days >= 1 and targetHires > 0, a
\* non-null result b is the smallest multiple of bonusIncrement in
\* [0, maxBonus] that meets the target: b meets it and no smaller multiple does.
C28_SmallestBonus ==
  ( /\ OptimizerCalled /\ optimized.result = "ok" /\ ~optimized.null
    /\ Monotone(optimized.fn)
    /\ optimized.days >= 1 /\ optimized.targetHires > 0 )
  => /\ optimized.value \in Multiples(optimizer.MAX_BONUS)
     /\ MeetsTarget(optimized.value)
     /\ \A b \in Multiples(optimized.value) :
          b < optimized.value => ~MeetsTarget(b)

\* C29: with targetHires > 0, getMinBonusForTarget returns null exactly when
\* days = 0, or days >= 1 and the final cumulative value at maxBonus is below
\* targetHires; in every other case it returns a number.
C29_NullWhenUnreachable ==
  (OptimizerCalled /\ optimized.targetHires > 0) =>
    /\ optimized.result = "ok"
    /\ optimized.null <=>
         \/ optimized.days = 0
         \/ optimized.days >= 1 /\ ~MeetsTarget(optimizer.MAX_BONUS)

\* C29 witness: a target that the maximum bonus misses in one day or more.
C29_Witness ==
  /\ OptimizerCalled /\ optimized.targetHires > 0
  /\ optimized.days >= 1
  /\ adoptionProbabilityFunction(optimized.fn, optimizer.MAX_BONUS) > 0
  /\ ~MeetsTarget(optimizer.MAX_BONUS)
  /\ optimized.null

\* C30: getMinBonusForTarget returns 0 whenever targetHires <= 0 (for any
\* days) and whenever days < 0 (for any targetHires), without a call of the
\* simulator or of adoptionProbFn.
C30_NoBonusNeeded ==
  (OptimizerCalled /\ (optimized.targetHires <= 0 \/ optimized.days < 0)) =>
    /\ optimized.result = "ok"
    /\ ~optimized.null
    /\ optimized.value = 0
    /\ optimized.calls = 0

\* C30 witness: days = 0 with a target that is not positive returned 0.
C30_Witness ==
  /\ OptimizerCalled
  /\ optimized.days = 0 /\ optimized.targetHires <= 0
  /\ ~optimized.null /\ optimized.value = 0 /\ optimized.calls = 0

\* Bonus a is no larger than bonus b, null counting as larger than every number.
BonusNoLarger(a, b) == b.null \/ (~a.null /\ a.value <= b.value)

\* The result of the call with the same optimizer, days and function and the
\* target t.
BonusFor(t) ==
  getMinBonusForTarget(optimizer, simulation, optimized.days, t,
                       optimized.fn, 0)

\* C31: for fixed days and a fixed monotone adoptionProbFn, the bonus returned
\* for a target t1 is no larger than the bonus returned for a target t2 >= t1,
\* null counting as larger than every number.
C31_MonotoneInTarget ==
  (OptimizerCalled /\ optimized.result = "ok" /\ Monotone(optimized.fn)) =>
    \A t1 \in Targets :
      t1 <= optimized.targetHires =>
        /\ BonusFor(t1).result = "ok"
        /\ BonusNoLarger(BonusFor(t1), optimized)

\* C31 witness: a target that needs a positive bonus and a smaller positive
\* target that needs a smaller one.
C31_Witness ==
  /\ OptimizerCalled /\ optimized.result = "ok" /\ Monotone(optimized.fn)
  /\ optimized.days >= 1 /\ ~optimized.null /\ optimized.value > 0
  /\ \E t1 \in 1..(optimized.targetHires - 1) :
       ~BonusFor(t1).null /\ BonusFor(t1).value < optimized.value

\* ------------------------------------------------- reading the heap calls
\* The elements of an array with their multiplicities.
BagOfSeq(h) == [e \in Range(h) |-> Cardinality({i \in DOMAIN h : h[i] = e})]

\* e is minimal under the comparator among the elements of h.
MinimalIn(e, h) == e \in Range(h) /\ \A x \in Range(h) : compare(e, x) <= 0

\* The elements of h are in non-decreasing order.
NonDecreasing(h) ==
  \A i \in DOMAIN h : \A j \in DOMAIN h : i < j => compare(h[i], h[j]) <= 0

\* C32: after any sequence of add and remove calls, size is adds minus
\* successful removes; add puts exactly the new element in; peek returns an
\* element minimal among those in the heap; remove takes out exactly one
\* minimal element; draining the heap yields all its elements in
\* non-decreasing order.
C32_HeapOrder ==
  /\ Len(minHeap) = heaped.adds - heaped.removes
  /\ (heaped.op = "add") =>
       BagOfSeq(minHeap) = BagOfSeq(heaped.before) (+) SetToBag({heaped.element})
  /\ (heaped.op = "peek") =>
       /\ minHeap = heaped.before
       /\ heaped.result = "ok" <=> Len(minHeap) > 0
       /\ heaped.result = "ok" => MinimalIn(heaped.element, minHeap)
  /\ (heaped.op = "remove") =>
       /\ heaped.result = "ok" <=> Len(heaped.before) > 0
       /\ heaped.result # "ok" => minHeap = heaped.before
       /\ heaped.result = "ok" =>
            \E m \in Range(heaped.before) :
              /\ MinimalIn(m, heaped.before)
              /\ BagOfSeq(minHeap) (+) SetToBag({m}) = BagOfSeq(heaped.before)
  /\ BagOfSeq(heapDrain(minHeap)) = BagOfSeq(minHeap)
  /\ NonDecreasing(heapDrain(minHeap))

\* C32 witness: a remove on a heap of four elements with two equal minimal
\* scores, whose array was not in sorted order.
C32_Witness ==
  /\ heaped.op = "remove" /\ heaped.result = "ok"
  /\ Len(heaped.before) = 4
  /\ ~NonDecreasing(heaped.before)
  /\ \E i, j \in DOMAIN heaped.before :
       /\ i # j
       /\ MinimalIn(heaped.before[i], heaped.before)
       /\ MinimalIn(heaped.before[j], heaped.before)
  /\ \E i \in DOMAIN minHeap : ~MinimalIn(minHeap[i], minHeap)

\* C33: every string accepted as an id behaves like any other id; a user is a
\* Root exactly when its referrerId is null and Attached otherwise.  So:
\* registerUser with a referrerId succeeds only for a registered referrer and
\* attaches the new user to it; registerUser of a registered id fails;
\* linkUserToReferrer of two registered users fails with AlreadyReferred when
\* the user is Attached, and with CycleDetected when the user is a Root and
\* the referrer is the user or one of its descendants; deleteUser of an
\* Attached user takes it out of the referrals of its referrer.
C33_IdsAreAlike ==
  /\ (IsRegister /\ last.referrerId # Undefined /\ last.result = "ok") =>
       /\ Has(pre, last.referrerId)
       /\ Has(users, last.created)
       /\ ReferrerOf(users, last.created) = last.referrerId
       /\ last.created \in ReferralsOf(users, last.referrerId)
  /\ (IsRegister /\ last.id # Undefined /\ Has(pre, last.id)) =>
       last.result # "ok"
  /\ (IsLink /\ Has(pre, last.id) /\ Has(pre, last.referrerId)) =>
       /\ ReferrerOf(pre, last.id) # Null => last.result = "AlreadyReferred"
       /\ ( /\ ReferrerOf(pre, last.id) = Null
            /\ last.referrerId \in Descendants(pre, last.id) \cup {last.id} )
          => last.result = "CycleDetected"
  /\ (IsDelete /\ last.result = "ok" /\ ReferrerOf(pre, last.id) # Null) =>
       \A u \in Keys(users) : last.id \notin ReferralsOf(users, u)

C35_GrowthDecelerates ==
  ( /\ SimulateReturned /\ simulated.p = PDen
    /\ simulation.INITIAL_REFERRERS >= 1
    /\ simulation.REFERRAL_CAPACITY_PER_USER >= 1
    /\ simulated.days > simulation.REFERRAL_CAPACITY_PER_USER )
  => \A k \in 1..(simulated.days \div 2) :
       simulated.value[k] >
         simulated.value[simulated.days] - simulated.value[simulated.days - k]

\* referrersByCapacity as simulate leaves it after d days.
BucketsAfter(sim, p, d) ==
  dayLoop(sim, p, d, 0, InitialBuckets(sim), 0, <<>>).referrersByCapacity

\* The total over all buckets, index 0 included.
TotalOfBuckets(sim, referrersByCapacity) ==
  referrersByCapacity[0] + totalActiveReferrers(sim, referrersByCapacity, 1)

\* C36: after every simulated day index 0 of referrersByCapacity holds all
\* the referrers exhausted so far, so the total over all buckets is the
\* initial referrer count plus the cumulative referrals to date.
C36_BucketsHoldEveryone ==
  SimulateReturned =>
    \A d \in 1..simulated.days :
      TotalOfBuckets(simulation,
                     BucketsAfter(simulation, simulated.p, d))
        = simulation.INITIAL_REFERRERS * Scale + simulated.value[d]

\* ------------------------------------------- reading getTopReferrersByReach
\* How often id was computed and pushed.
TimesLogged(log, id) == Cardinality({i \in DOMAIN log : log[i].id = id})

\* C37: during one getTopReferrersByReach(k) call no user's reach is computed
\* or pushed onto the heap twice, and after each push-and-evict step the heap
\* holds at most k entries; when the call returns, every user's reach was
\* computed and pushed exactly once.
C37_ReachComputedOnce ==
  \A k \in Ks :
    LET c == computeReachAll(users, k, 1, <<>>, <<>>, <<>>)
    IN  /\ \A i \in DOMAIN c.log :
             /\ TimesLogged(c.log, c.log[i].id) = 1
             /\ c.log[i].size <= k
        /\ c.result = "ok" =>
             \A id \in Keys(users) : TimesLogged(c.log, id) = 1

\* C37 witness: three users in a chain whose Map order starts with the
\* deepest one, so that the loop reaches cached users through the recursion
\* and again through the iteration, with a heap of capacity 1.
C37_Witness ==
  /\ Len(users) = 3
  /\ \E a, b, d \in Keys(users) :
       /\ a # b /\ b # d /\ a # d
       /\ users[1].id = d
       /\ ReferrerOf(users, d) = b /\ ReferrerOf(users, b) = a
       /\ d \in ReferralsOf(users, b) /\ b \in ReferralsOf(users, a)
  /\ computeReachAll(users, 1, 1, <<>>, <<>>, <<>>).result = "ok"
  /\ Len(computeReachAll(users, 1, 1, <<>>, <<>>, <<>>).log) = 3

C39_RegisterAfterDelete ==
  (IsDelete /\ last.result = "ok") =>
    LET out == registerUserCall(users, last.id, Undefined, Null)
    IN  /\ out.result = "ok"
        /\ Has(out.users, last.id)
        /\ GetUser(out.users, last.id) =
             [id |-> last.id, referrerId |-> Null, referrals |-> <<>>]
        /\ \A c \in ReferralsOf(pre, last.id) \cap Keys(users) :
             /\ Has(out.users, c)
             /\ ReferrerOf(out.users, c) = Null
        /\ \A u \in Keys(users) : GetUser(out.users, u) = GetUser(users, u)

\* C39 witness: a user with a direct referral was deleted, the referral is
\* still registered, and registering the id again succeeds.
C39_Witness ==
  /\ IsDelete /\ last.result = "ok" /\ Truthy(last.id)
  /\ \E c \in ReferralsOf(pre, last.id) \cap Keys(users) :
       /\ c # last.id
       /\ ReferrerOf(pre, c) = last.id
  /\ registerUserCall(users, last.id, Undefined, Null).result = "ok"
====
